---- MODULE Spec2Model ----
(***************************************************************************)
(* Panda Maze Adventure (src/src/components/PandaGame.tsx).                *)
(*                                                                         *)
(* The component keeps one GameState value in React state; every handler   *)
(* is a pure updater prev -> next handed to setGameState.  The model keeps *)
(* that shape: one variable gameState holding the GameState record, one    *)
(* operator per updater, and one action per event that applies it.         *)
(*                                                                         *)
(* Coordinates.  The maze has 11 rows, so a cell is 600/11 px high, and a  *)
(* food item is centred with FOOD_SIZE/2 = 12.5 px.  All lengths are kept  *)
(* as exact integers in units of 1/Unit px (Unit = 2 * 11); comparisons    *)
(* are the code's comparisons on the exact values.                         *)
(***************************************************************************)
EXTENDS Integers, Sequences, FiniteSets, TLC

Unit == 2 * 11
Px(n) == n * Unit

GAME_WIDTH == 800
GAME_HEIGHT == 600
PANDA_SIZE == 30
FOOD_SIZE == 25
PANDA_SPEED == 4

Min(a, b) == IF a < b THEN a ELSE b
Max(a, b) == IF a > b THEN a ELSE b

GOOD_FOODS ==
  << [emoji |-> "bamboo", points |-> 10],
     [emoji |-> "apple", points |-> 15],
     [emoji |-> "grapes", points |-> 12],
     [emoji |-> "carrot", points |-> 8],
     [emoji |-> "lettuce", points |-> 6] >>

BAD_FOODS ==
  << [emoji |-> "burger", points |-> 0 - 20],
     [emoji |-> "pizza", points |-> 0 - 15],
     [emoji |-> "candy", points |-> 0 - 10],
     [emoji |-> "fries", points |-> 0 - 12],
     [emoji |-> "donut", points |-> 0 - 18] >>

\* The three maze grids, one one-character string per cell (row.split('')).
Layout1 ==
  <<<<"#","#","#","#","#","#","#","#","#","#","#","#","#","#","#","#","#","#","#","#">>,
     <<"#","S",".",".",".",".",".","#",".",".",".",".",".",".",".",".",".",".",".","#">>,
     <<"#",".","#","#","#","#",".","#",".","#","#","#","#","#","#","#","#","#",".","#">>,
     <<"#",".",".",".",".","#",".",".",".","#",".",".",".",".",".",".",".","#",".","#">>,
     <<"#","#","#","#",".","#","#","#","#","#",".","#","#","#","#","#",".","#",".","#">>,
     <<"#",".",".",".",".",".",".",".",".",".",".","#",".",".",".","#",".",".",".","#">>,
     <<"#",".","#","#","#","#","#","#","#","#",".","#",".","#",".","#","#","#",".","#">>,
     <<"#",".","#",".",".",".",".",".",".","#",".",".",".","#",".",".",".",".",".","#">>,
     <<"#",".","#",".","#","#","#","#",".","#","#","#","#","#","#","#","#","#",".","#">>,
     <<"#",".",".",".","#",".",".",".",".",".",".",".",".",".",".",".",".",".",".","E">>,
     <<"#","#","#","#","#","#","#","#","#","#","#","#","#","#","#","#","#","#","#","#">> >>
GoodFoodPositions1 ==
  << [row |-> 1, col |-> 2], [row |-> 1, col |-> 4], [row |-> 3, col |-> 2], [row |-> 5, col |-> 2], [row |-> 7, col |-> 3], [row |-> 9, col |-> 4] >>
BadFoodPositions1 ==
  << [row |-> 1, col |-> 12], [row |-> 3, col |-> 15], [row |-> 7, col |-> 17] >>

Layout2 ==
  <<<<"#","#","#","#","#","#","#","#","#","#","#","#","#","#","#","#","#","#","#","#">>,
     <<"#","S",".",".",".",".",".",".",".",".",".",".",".",".",".",".",".",".",".","#">>,
     <<"#",".","#","#","#","#","#","#","#","#","#","#","#","#","#","#","#","#",".","#">>,
     <<"#",".",".",".",".",".",".",".",".",".",".",".",".",".",".",".",".","#",".","#">>,
     <<"#","#","#","#","#","#","#","#","#","#","#","#","#","#","#","#",".","#",".","#">>,
     <<"#",".",".",".",".",".",".",".",".",".",".",".",".",".",".",".",".","#",".","#">>,
     <<"#",".","#","#","#","#","#","#","#","#","#","#","#","#","#","#","#","#",".","#">>,
     <<"#",".",".",".",".",".",".",".",".",".",".",".",".",".",".",".",".",".",".","#">>,
     <<"#","#","#","#","#","#","#","#","#","#","#","#","#","#","#","#","#","#",".","#">>,
     <<"#",".",".",".",".",".",".",".",".",".",".",".",".",".",".",".",".",".",".","E">>,
     <<"#","#","#","#","#","#","#","#","#","#","#","#","#","#","#","#","#","#","#","#">> >>
GoodFoodPositions2 ==
  << [row |-> 1, col |-> 3], [row |-> 1, col |-> 8], [row |-> 3, col |-> 5], [row |-> 3, col |-> 12], [row |-> 5, col |-> 3], [row |-> 7, col |-> 8], [row |-> 9, col |-> 5], [row |-> 9, col |-> 15] >>
BadFoodPositions2 ==
  << [row |-> 1, col |-> 15], [row |-> 5, col |-> 15], [row |-> 7, col |-> 3] >>

Layout3 ==
  <<<<"#","#","#","#","#","#","#","#","#","#","#","#","#","#","#","#","#","#","#","#">>,
     <<"#","S",".",".",".",".",".",".",".","#",".",".",".",".",".",".",".",".",".","#">>,
     <<"#",".","#","#","#","#","#","#","#",".","#",".","#","#","#","#","#",".","#","#">>,
     <<"#",".",".",".",".",".",".",".","#",".","#",".",".",".",".",".","#",".",".","#">>,
     <<"#","#","#","#","#","#","#",".","#",".","#","#","#","#","#",".","#","#",".","#">>,
     <<"#",".",".",".",".",".",".",".","#",".",".",".",".",".",".",".","#",".",".","#">>,
     <<"#",".","#","#","#","#","#","#","#",".","#","#","#","#","#","#","#",".","#","#">>,
     <<"#",".",".",".",".",".",".",".","#",".",".",".",".",".",".",".",".",".","#","#">>,
     <<"#",".","#","#","#","#","#",".","#","#","#","#","#","#","#","#","#","#","#","E">>,
     <<"#",".",".",".",".",".",".",".",".",".",".",".",".",".",".",".",".",".",".",".","#">>,
     <<"#","#","#","#","#","#","#","#","#","#","#","#","#","#","#","#","#","#","#","#">> >>
GoodFoodPositions3 ==
  << [row |-> 1, col |-> 3], [row |-> 1, col |-> 6], [row |-> 3, col |-> 3], [row |-> 3, col |-> 13], [row |-> 5, col |-> 3], [row |-> 5, col |-> 13], [row |-> 7, col |-> 3], [row |-> 9, col |-> 3], [row |-> 9, col |-> 8], [row |-> 9, col |-> 15] >>
BadFoodPositions3 ==
  << [row |-> 1, col |-> 15], [row |-> 3, col |-> 8], [row |-> 7, col |-> 12], [row |-> 9, col |-> 12] >>

MAZE_LAYOUTS ==
  << [layout |-> Layout1, goodFoodPositions |-> GoodFoodPositions1,
      badFoodPositions |-> BadFoodPositions1],
     [layout |-> Layout2, goodFoodPositions |-> GoodFoodPositions2,
      badFoodPositions |-> BadFoodPositions2],
     [layout |-> Layout3, goodFoodPositions |-> GoodFoodPositions3,
      badFoodPositions |-> BadFoodPositions3] >>

\* event.key.toLowerCase() on the key names the model feeds in; a name that
\* has no upper-case letter is its own lower-case form.
LowerTable ==
  [k \in {"ArrowUp", "ArrowDown", "ArrowLeft", "ArrowRight", "W", "A", "S", "D"} |->
     CASE k = "ArrowUp" -> "arrowup"
       [] k = "ArrowDown" -> "arrowdown"
       [] k = "ArrowLeft" -> "arrowleft"
       [] k = "ArrowRight" -> "arrowright"
       [] k = "W" -> "w"
       [] k = "A" -> "a"
       [] k = "S" -> "s"
       [] k = "D" -> "d"]
toLowerCase(k) == IF k \in DOMAIN LowerTable THEN LowerTable[k] ELSE k

\* The key names handleKeyDown accepts.
MovementKeys ==
  {"ArrowUp", "ArrowDown", "ArrowLeft", "ArrowRight", "w", "a", "s", "d", "W", "A", "S", "D"}

checkCollision(pos1, pos2, size1, size2) ==
  /\ pos1.x < pos2.x + size2
  /\ pos1.x + size1 > pos2.x
  /\ pos1.y < pos2.y + size2
  /\ pos1.y + size1 > pos2.y

\* maze[row][col] with the code's 0-based indices.
Cell(maze, row, col) == maze[row + 1][col + 1]

\* isValidFoodPosition without the test of the cell's character.
isValidFoodPosition_NoCellTest(maze, row, col) ==
  ~(row < 0 \/ row >= Len(maze) \/ col < 0 \/ col >= Len(maze[1]))

isValidFoodPosition(maze, row, col) ==
  IF row < 0 \/ row >= Len(maze) \/ col < 0 \/ col >= Len(maze[1])
  THEN FALSE
  ELSE Cell(maze, row, col) \in {".", "S", "E"}

\* The cells of the grid as (rowIndex, colIndex) pairs, 0-based.
GridCells(maze) ==
  {rc \in (0 .. Len(maze) - 1) \X (0 .. 20) : rc[2] < Len(maze[rc[1] + 1])}

MazeWalls(maze, cellWidth, cellHeight) ==
  {[id |-> <<"wall", rc[1], rc[2]>>,
    position |-> [x |-> rc[2] * cellWidth, y |-> rc[1] * cellHeight],
    width |-> cellWidth,
    height |-> cellHeight] : rc \in {c \in GridCells(maze) : Cell(maze, c[1], c[2]) = "#"}}

\* startPos: the code overwrites it at every 'S' cell in row-major order, so
\* the last one stands; (0,0) when the grid has none.
MazeStart(maze, cellWidth, cellHeight) ==
  LET ss == {rc \in GridCells(maze) : Cell(maze, rc[1], rc[2]) = "S"}
  IN IF ss = {} THEN [x |-> 0, y |-> 0]
     ELSE LET rc == CHOOSE c \in ss : \A d \in ss :
                      d[1] < c[1] \/ (d[1] = c[1] /\ d[2] <= c[2])
          IN [x |-> rc[2] * cellWidth + cellWidth \div 2 - Px(PANDA_SIZE) \div 2,
              y |-> rc[1] * cellHeight + cellHeight \div 2 - Px(PANDA_SIZE) \div 2]

MazeEnd(maze, cellWidth, cellHeight) ==
  LET es == {rc \in GridCells(maze) : Cell(maze, rc[1], rc[2]) = "E"}
  IN IF es = {} THEN [x |-> 0, y |-> 0]
     ELSE LET rc == CHOOSE c \in es : \A d \in es :
                      d[1] < c[1] \/ (d[1] = c[1] /\ d[2] <= c[2])
          IN [x |-> rc[2] * cellWidth, y |-> rc[1] * cellHeight]

\* The forEach over a designator list: one item per designated cell that
\* isValidFoodPosition accepts, in list order, skipping the others.
RECURSIVE PlaceFoods(_, _, _, _, _, _, _)
PlaceFoods(maze, positions, index, type, palette, cellWidth, cellHeight) ==
  IF index >= Len(positions) THEN << >>
  ELSE LET pos == positions[index + 1]
           rest == PlaceFoods(maze, positions, index + 1, type, palette,
                              cellWidth, cellHeight)
       IN IF isValidFoodPosition(maze, pos.row, pos.col)
          THEN LET x == pos.col * cellWidth
                   y == pos.row * cellHeight
                   food == palette[(index % Len(palette)) + 1]
               IN << [id |-> <<type, index>>,
                      type |-> type,
                      emoji |-> food.emoji,
                      position |-> [x |-> x + cellWidth \div 2 - Px(FOOD_SIZE) \div 2,
                                    y |-> y + cellHeight \div 2 - Px(FOOD_SIZE) \div 2],
                      points |-> food.points] >> \o rest
          ELSE rest

generateMaze(level) ==
  LET mazeIndex == Min(level - 1, Len(MAZE_LAYOUTS) - 1)
      mazeData == MAZE_LAYOUTS[mazeIndex + 1]
      maze == mazeData.layout
      cellWidth == Px(GAME_WIDTH) \div Len(maze[1])
      cellHeight == Px(GAME_HEIGHT) \div Len(maze)
      foods == PlaceFoods(maze, mazeData.goodFoodPositions, 0, "good", GOOD_FOODS,
                          cellWidth, cellHeight)
               \o PlaceFoods(maze, mazeData.badFoodPositions, 0, "bad", BAD_FOODS,
                             cellWidth, cellHeight)
  IN [walls |-> MazeWalls(maze, cellWidth, cellHeight),
      foods |-> foods,
      startPos |-> MazeStart(maze, cellWidth, cellHeight),
      endPos |-> MazeEnd(maze, cellWidth, cellHeight),
      goodFoodCount |-> Len(SelectSeq(foods, LAMBDA food : food.type = "good"))]

\* initializeLevel without the reset of goodFoodCollected.
initializeLevel_KeepsCollected(prev, level) ==
  LET m == generateMaze(level)
  IN [prev EXCEPT !.walls = m.walls,
                  !.foods = m.foods,
                  !.panda = m.startPos,
                  !.gameStatus = "playing",
                  !.totalGoodFood = m.goodFoodCount,
                  !.hasReachedEnd = FALSE]

initializeLevel(prev, level) ==
  LET m == generateMaze(level)
  IN [prev EXCEPT !.walls = m.walls,
                  !.foods = m.foods,
                  !.panda = m.startPos,
                  !.gameStatus = "playing",
                  !.goodFoodCollected = 0,
                  !.totalGoodFood = m.goodFoodCount,
                  !.hasReachedEnd = FALSE]

\* handleKeyDown that spreads the state its closure captured, the one of the
\* first render, instead of the updater's prev.
handleKeyDown_StaleState(prev, key) ==
  LET stale == [panda |-> [x |-> 0, y |-> 0], foods |-> << >>, walls |-> {},
                score |-> 0, health |-> 100, level |-> 1, gameStatus |-> "menu",
                keysPressed |-> {}, goodFoodCollected |-> 0, totalGoodFood |-> 0,
                hasReachedEnd |-> FALSE]
  IN IF key \in MovementKeys
     THEN [stale EXCEPT !.keysPressed = prev.keysPressed \cup {toLowerCase(key)}]
     ELSE prev

\* handleKeyDown that stores event.key as it comes.
handleKeyDown_NoLowerCase(prev, key) ==
  IF key \in MovementKeys
  THEN [prev EXCEPT !.keysPressed = prev.keysPressed \cup {key}]
  ELSE prev

handleKeyDown(prev, key) ==
  IF key \in MovementKeys
  THEN [prev EXCEPT !.keysPressed = prev.keysPressed \cup {toLowerCase(key)}]
  ELSE prev

handleKeyUp(prev, key) ==
  [prev EXCEPT !.keysPressed = prev.keysPressed \ {toLowerCase(key)}]

\* The document listeners registered by the keyboard effect: they forward to
\* the handlers only while the rendered status is playing.
handleKeyDownWrapper(prev, key) ==
  IF prev.gameStatus = "playing" THEN handleKeyDown(prev, key) ELSE prev

handleKeyUpWrapper(prev, key) ==
  IF prev.gameStatus = "playing" THEN handleKeyUp(prev, key) ELSE prev

hitsWall(walls, testPanda) ==
  \E wall \in walls :
    checkCollision(testPanda, wall.position, Px(PANDA_SIZE), wall.width)

\* movePanda whose last block does not test the held keys.
movePanda_RightUnasked(prev) ==
  LET keys == prev.keysPressed
      moveSpeed == Px(PANDA_SPEED)
      p0 == prev.panda
      upY == Max(0, p0.y - moveSpeed)
      p1 == IF ("arrowup" \in keys \/ "w" \in keys)
               /\ ~hitsWall(prev.walls, [p0 EXCEPT !.y = upY])
            THEN [p0 EXCEPT !.y = upY] ELSE p0
      downY == Min(Px(GAME_HEIGHT) - Px(PANDA_SIZE), p1.y + moveSpeed)
      p2 == IF ("arrowdown" \in keys \/ "s" \in keys)
               /\ ~hitsWall(prev.walls, [p1 EXCEPT !.y = downY])
            THEN [p1 EXCEPT !.y = downY] ELSE p1
      leftX == Max(0, p2.x - moveSpeed)
      p3 == IF ("arrowleft" \in keys \/ "a" \in keys)
               /\ ~hitsWall(prev.walls, [p2 EXCEPT !.x = leftX])
            THEN [p2 EXCEPT !.x = leftX] ELSE p2
      rightX == Min(Px(GAME_WIDTH) - Px(PANDA_SIZE), p3.x + moveSpeed)
      p4 == IF ~hitsWall(prev.walls, [p3 EXCEPT !.x = rightX])
            THEN [p3 EXCEPT !.x = rightX] ELSE p3
  IN p4

\* movePanda that rejects a candidate outside the arena instead of clamping it.
movePanda_RejectsOutside(prev) ==
  LET keys == prev.keysPressed
      moveSpeed == Px(PANDA_SPEED)
      maxX == Px(GAME_WIDTH) - Px(PANDA_SIZE)
      maxY == Px(GAME_HEIGHT) - Px(PANDA_SIZE)
      p0 == prev.panda
      p1 == IF ("arrowup" \in keys \/ "w" \in keys) /\ p0.y - moveSpeed >= 0
               /\ ~hitsWall(prev.walls, [p0 EXCEPT !.y = p0.y - moveSpeed])
            THEN [p0 EXCEPT !.y = p0.y - moveSpeed] ELSE p0
      p2 == IF ("arrowdown" \in keys \/ "s" \in keys) /\ p1.y + moveSpeed <= maxY
               /\ ~hitsWall(prev.walls, [p1 EXCEPT !.y = p1.y + moveSpeed])
            THEN [p1 EXCEPT !.y = p1.y + moveSpeed] ELSE p1
      p3 == IF ("arrowleft" \in keys \/ "a" \in keys) /\ p2.x - moveSpeed >= 0
               /\ ~hitsWall(prev.walls, [p2 EXCEPT !.x = p2.x - moveSpeed])
            THEN [p2 EXCEPT !.x = p2.x - moveSpeed] ELSE p2
      p4 == IF ("arrowright" \in keys \/ "d" \in keys) /\ p3.x + moveSpeed <= maxX
               /\ ~hitsWall(prev.walls, [p3 EXCEPT !.x = p3.x + moveSpeed])
            THEN [p3 EXCEPT !.x = p3.x + moveSpeed] ELSE p3
  IN p4

\* movePanda that computes both candidates from the position the frame
\* starts at and takes them only together.
movePanda_BothOrNone(prev) ==
  LET keys == prev.keysPressed
      moveSpeed == Px(PANDA_SPEED)
      p0 == prev.panda
      dy == IF "arrowup" \in keys \/ "w" \in keys THEN 0 - moveSpeed
            ELSE IF "arrowdown" \in keys \/ "s" \in keys THEN moveSpeed ELSE 0
      dx == IF "arrowleft" \in keys \/ "a" \in keys THEN 0 - moveSpeed
            ELSE IF "arrowright" \in keys \/ "d" \in keys THEN moveSpeed ELSE 0
      test == [x |-> Min(Px(GAME_WIDTH) - Px(PANDA_SIZE), Max(0, p0.x + dx)),
               y |-> Min(Px(GAME_HEIGHT) - Px(PANDA_SIZE), Max(0, p0.y + dy))]
  IN IF hitsWall(prev.walls, test) THEN p0 ELSE test

\* The four movement blocks of updateGame, in the code's order: up, down,
\* left, right, each testing its candidate against the position so far.
movePanda(prev) ==
  LET keys == prev.keysPressed
      moveSpeed == Px(PANDA_SPEED)
      p0 == prev.panda
      upY == Max(0, p0.y - moveSpeed)
      p1 == IF ("arrowup" \in keys \/ "w" \in keys)
               /\ ~hitsWall(prev.walls, [p0 EXCEPT !.y = upY])
            THEN [p0 EXCEPT !.y = upY] ELSE p0
      downY == Min(Px(GAME_HEIGHT) - Px(PANDA_SIZE), p1.y + moveSpeed)
      p2 == IF ("arrowdown" \in keys \/ "s" \in keys)
               /\ ~hitsWall(prev.walls, [p1 EXCEPT !.y = downY])
            THEN [p1 EXCEPT !.y = downY] ELSE p1
      leftX == Max(0, p2.x - moveSpeed)
      p3 == IF ("arrowleft" \in keys \/ "a" \in keys)
               /\ ~hitsWall(prev.walls, [p2 EXCEPT !.x = leftX])
            THEN [p2 EXCEPT !.x = leftX] ELSE p2
      rightX == Min(Px(GAME_WIDTH) - Px(PANDA_SIZE), p3.x + moveSpeed)
      p4 == IF ("arrowright" \in keys \/ "d" \in keys)
               /\ ~hitsWall(prev.walls, [p3 EXCEPT !.x = rightX])
            THEN [p3 EXCEPT !.x = rightX] ELSE p3
  IN p4

\* goodHealth without the cap.
goodHealth_NoCap(h) == h + 5

goodHealth(h) == Min(100, h + 5)
badHealth(h) == Max(0, h - 15)

\* eatFoods that keeps the score from going below 0.
RECURSIVE eatFoods_ScoreFloor(_, _, _, _)
eatFoods_ScoreFloor(foods, i, newPanda, acc) ==
  IF i > Len(foods) THEN acc
  ELSE LET food == foods[i]
       IN IF checkCollision(newPanda, food.position, Px(PANDA_SIZE), Px(FOOD_SIZE))
          THEN eatFoods_ScoreFloor(foods, i + 1, newPanda,
                 [acc EXCEPT !.score = Max(0, acc.score + food.points),
                             !.health = IF food.type = "good"
                                        THEN Min(100, acc.health + 5)
                                        ELSE Max(0, acc.health - 15),
                             !.collected = IF food.type = "good"
                                           THEN acc.collected + 1
                                           ELSE acc.collected])
          ELSE eatFoods_ScoreFloor(foods, i + 1, newPanda,
                 [acc EXCEPT !.foods = Append(acc.foods, food)])

\* eatFoods whose filter callback returns true for an eaten item too.
RECURSIVE eatFoods_KeepEaten(_, _, _, _)
eatFoods_KeepEaten(foods, i, newPanda, acc) ==
  IF i > Len(foods) THEN acc
  ELSE LET food == foods[i]
           hit == checkCollision(newPanda, food.position, Px(PANDA_SIZE), Px(FOOD_SIZE))
       IN eatFoods_KeepEaten(foods, i + 1, newPanda,
            [acc EXCEPT !.foods = Append(acc.foods, food),
                        !.score = IF hit THEN acc.score + food.points ELSE acc.score,
                        !.health = IF ~hit THEN acc.health
                                   ELSE IF food.type = "good" THEN Min(100, acc.health + 5)
                                   ELSE Max(0, acc.health - 15),
                        !.collected = IF hit /\ food.type = "good"
                                      THEN acc.collected + 1 ELSE acc.collected])

\* prev.foods.filter(...): walks the array in order, accumulating score,
\* health and the collected count, and keeps the items that do not overlap.
RECURSIVE eatFoods(_, _, _, _)
eatFoods(foods, i, newPanda, acc) ==
  IF i > Len(foods) THEN acc
  ELSE LET food == foods[i]
       IN IF checkCollision(newPanda, food.position, Px(PANDA_SIZE), Px(FOOD_SIZE))
          THEN eatFoods(foods, i + 1, newPanda,
                 [acc EXCEPT !.score = acc.score + food.points,
                             !.health = IF food.type = "good"
                                        THEN goodHealth(acc.health)
                                        ELSE badHealth(acc.health),
                             !.collected = IF food.type = "good"
                                           THEN acc.collected + 1
                                           ELSE acc.collected])
          ELSE eatFoods(foods, i + 1, newPanda,
                 [acc EXCEPT !.foods = Append(acc.foods, food)])

reachedEnd(newPanda) == newPanda.x >= Px(GAME_WIDTH) - Px(PANDA_SIZE) - Px(10)

\* newStatus that lets the panda leave with good food uncollected.
newStatus_ExitAnyway(prev, newHealth, hasReachedEnd, newGoodFoodCollected) ==
  IF newHealth <= 0 THEN "gameOver"
  ELSE IF hasReachedEnd /\ newGoodFoodCollected <= prev.totalGoodFood THEN "levelComplete"
  ELSE prev.gameStatus

\* newStatus that tests the end zone before the health.
newStatus_EndZoneFirst(prev, newHealth, hasReachedEnd, newGoodFoodCollected) ==
  IF hasReachedEnd /\ newGoodFoodCollected = prev.totalGoodFood THEN "levelComplete"
  ELSE IF hasReachedEnd /\ newGoodFoodCollected < prev.totalGoodFood THEN "gameOver"
  ELSE IF newHealth <= 0 THEN "gameOver"
  ELSE prev.gameStatus

newStatus(prev, newHealth, hasReachedEnd, newGoodFoodCollected) ==
  IF newHealth <= 0 THEN "gameOver"
  ELSE IF hasReachedEnd /\ newGoodFoodCollected = prev.totalGoodFood THEN "levelComplete"
  ELSE IF hasReachedEnd /\ newGoodFoodCollected < prev.totalGoodFood THEN "gameOver"
  ELSE prev.gameStatus

\* The body of updateGame's updater past its first line.
playingFrame(prev) ==
  LET newPanda == movePanda(prev)
      eaten == eatFoods(prev.foods, 1, newPanda,
                        [foods |-> << >>, score |-> prev.score,
                         health |-> prev.health,
                         collected |-> prev.goodFoodCollected])
      hasReachedEnd == reachedEnd(newPanda)
  IN [prev EXCEPT !.panda = newPanda,
                  !.foods = eaten.foods,
                  !.score = eaten.score,
                  !.health = eaten.health,
                  !.goodFoodCollected = eaten.collected,
                  !.hasReachedEnd = hasReachedEnd,
                  !.gameStatus = newStatus(prev, eaten.health, hasReachedEnd,
                                           eaten.collected)]

\* updateGame without its first line.
updateGame_NoStatusTest(prev) == playingFrame(prev)

updateGame(prev) ==
  IF prev.gameStatus # "playing" THEN prev ELSE playingFrame(prev)

\* startGame without the reset of the score.
startGame_KeepScore(prev) ==
  initializeLevel([prev EXCEPT !.health = 100, !.level = 1,
                               !.gameStatus = "playing"], 1)

startGame(prev) ==
  initializeLevel([prev EXCEPT !.score = 0, !.health = 100, !.level = 1,
                               !.gameStatus = "playing"], 1)

\* nextLevel that starts the next level with the score at 0.
nextLevel_ResetsScore(prev) ==
  LET newLevel == prev.level + 1
  IN IF newLevel > Len(MAZE_LAYOUTS)
     THEN [prev EXCEPT !.gameStatus = "gameWon"]
     ELSE initializeLevel([prev EXCEPT !.level = newLevel, !.score = 0], newLevel)

\* nextLevel that goes back to the first level past the last one.
nextLevel_WrapsAround(prev) ==
  LET newLevel == IF prev.level + 1 > Len(MAZE_LAYOUTS) THEN 1 ELSE prev.level + 1
  IN initializeLevel([prev EXCEPT !.level = newLevel], newLevel)

\* nextLevel without the test for the last level.
nextLevel_NoLastLevelTest(prev) ==
  LET newLevel == prev.level + 1
  IN initializeLevel([prev EXCEPT !.level = newLevel], newLevel)

\* nextLevel that compares with >= instead of >.
nextLevel_OffByOne(prev) ==
  LET newLevel == prev.level + 1
  IN IF newLevel >= Len(MAZE_LAYOUTS)
     THEN [prev EXCEPT !.gameStatus = "gameWon"]
     ELSE initializeLevel([prev EXCEPT !.level = newLevel], newLevel)

nextLevel(prev) ==
  LET newLevel == prev.level + 1
  IN IF newLevel > Len(MAZE_LAYOUTS)
     THEN [prev EXCEPT !.gameStatus = "gameWon"]
     ELSE initializeLevel([prev EXCEPT !.level = newLevel], newLevel)

restartGame(prev) == startGame(prev)

mainMenu(prev) == [prev EXCEPT !.gameStatus = "menu"]
(***************************************************************************)
(* The environment.  The browser delivers key events and animation frames  *)
(* and the player clicks the buttons of the screen that is rendered.  The  *)
(* player either plays freely, for at most MaxFrames frames per level,     *)
(* holding at most MaxHeld keys, or plays one of the recorded routes       *)
(* below from the start of a level: hold a key for a number of frames,     *)
(* release it, hold the next.  script is what is left of the route being   *)
(* played, << >> while the player is free.                                 *)
(***************************************************************************)
VARIABLES gameState, frames, script, reach, frontier
vars == <<gameState, frames, script, reach, frontier>>

\* Bounds of the exploration.
MaxHeld == 2
MaxFrames == 5

KeyNames == {"ArrowUp", "ArrowDown", "ArrowLeft", "ArrowRight", "d", "D", "x"}

InitialState ==
  [panda |-> [x |-> 0, y |-> 0], foods |-> << >>, walls |-> {}, score |-> 0,
   health |-> 100, level |-> 1, gameStatus |-> "menu", keysPressed |-> {},
   goodFoodCollected |-> 0, totalGoodFood |-> 0, hasReachedEnd |-> FALSE]

Route1Full ==
  [level |-> 1,
   script |-> << <<"ArrowRight", 51>>, <<"ArrowLeft", 52>>, <<"ArrowDown", 30>>,
                 <<"ArrowRight", 32>>, <<"ArrowDown", 27>>, <<"ArrowLeft", 32>>,
                 <<"ArrowDown", 55>>, <<"ArrowRight", 22>>, <<"ArrowUp", 36>>,
                 <<"ArrowRight", 50>>, <<"ArrowDown", 36>>, <<"ArrowRight", 105>> >>]
Route1Top ==
  [level |-> 1,
   script |-> << <<"ArrowRight", 51>>, <<"ArrowDown", 30>>, <<"ArrowRight", 20>>,
                 <<"ArrowUp", 36>>, <<"ArrowRight", 100>>, <<"ArrowDown", 118>>,
                 <<"ArrowRight", 5>> >>]
Route2Full ==
  [level |-> 2,
   script |-> << <<"ArrowRight", 171>>, <<"ArrowLeft", 172>>, <<"ArrowDown", 30>>,
                 <<"ArrowRight", 152>>, <<"ArrowDown", 27>>, <<"ArrowLeft", 152>>,
                 <<"ArrowDown", 27>>, <<"ArrowRight", 172>>, <<"ArrowDown", 28>>,
                 <<"ArrowLeft", 172>>, <<"ArrowRight", 177>> >>]
Route1Bad ==
  [level |-> 1,
   script |-> << <<"ArrowRight", 51>>, <<"ArrowDown", 30>>, <<"ArrowRight", 20>>,
                 <<"ArrowUp", 36>>, <<"ArrowRight", 100>>, <<"ArrowDown", 54>>,
                 <<"ArrowLeft", 22>>, <<"ArrowUp", 27>>, <<"ArrowLeft", 3>>,
                 <<"ArrowRight", 5>>, <<"ArrowDown", 36>>, <<"ArrowRight", 20>>,
                 <<"ArrowDown", 55>>, <<"ArrowRight", 8>> >>]
Routes == {Route1Full, Route1Top, Route1Bad, Route2Full}

Free == script = << >>
Held(k) == toLowerCase(k) \in gameState.keysPressed

Init ==
  /\ gameState = InitialState /\ frames = 0 /\ script = << >>
  /\ reach = {} /\ frontier = {}

Tick ==
  /\ IF Free THEN gameState.gameStatus = "playing" => frames < MaxFrames
     ELSE Held(script[1][1]) /\ script[1][2] > 0
  /\ gameState' = updateGame(gameState)
  /\ frames' = IF Free /\ gameState.gameStatus = "playing" THEN frames + 1 ELSE frames
  /\ script' = IF Free THEN script
               ELSE << <<script[1][1], script[1][2] - 1>> >> \o Tail(script)
  /\ UNCHANGED <<reach, frontier>>

KeyDown(k) ==
  /\ IF Free THEN Held(k) \/ Cardinality(gameState.keysPressed) < MaxHeld
     ELSE k = script[1][1] /\ ~Held(k) /\ script[1][2] > 0
  /\ gameState' = handleKeyDownWrapper(gameState, k)
  /\ UNCHANGED <<frames, script, reach, frontier>>

KeyUp(k) ==
  /\ ~Free => k = script[1][1] /\ Held(k) /\ script[1][2] = 0
  /\ gameState' = handleKeyUpWrapper(gameState, k)
  /\ script' = IF Free THEN script ELSE Tail(script)
  /\ UNCHANGED <<frames, reach, frontier>>

StartGame ==
  /\ Free /\ gameState.gameStatus = "menu"
  /\ gameState' = startGame(gameState) /\ frames' = 0
  /\ UNCHANGED <<script, reach, frontier>>

RestartGame ==
  /\ Free /\ gameState.gameStatus \in {"gameOver", "gameWon"}
  /\ gameState' = restartGame(gameState) /\ frames' = 0
  /\ UNCHANGED <<script, reach, frontier>>

NextLevel ==
  /\ Free /\ gameState.gameStatus = "levelComplete"
  /\ gameState' = nextLevel(gameState) /\ frames' = 0
  /\ UNCHANGED <<script, reach, frontier>>

MainMenu ==
  /\ Free /\ gameState.gameStatus \in {"gameOver", "gameWon"}
  /\ gameState' = mainMenu(gameState)
  /\ UNCHANGED <<frames, script, reach, frontier>>

BeginRoute(r) ==
  /\ Free /\ frames = 0
  /\ gameState.gameStatus = "playing"
  /\ gameState.level = r.level
  /\ gameState.keysPressed = {}
  /\ gameState.panda = generateMaze(r.level).startPos
  /\ script' = r.script
  /\ UNCHANGED <<gameState, frames, reach, frontier>>

Next ==
  \/ Tick
  \/ \E k \in KeyNames : KeyDown(k)
  \/ \E k \in KeyNames : KeyUp(k)
  \/ StartGame \/ RestartGame \/ NextLevel \/ MainMenu
  \/ \E r \in Routes : BeginRoute(r)

Spec == Init /\ [][Next]_vars

(***************************************************************************)
(* Where the panda can get to.  From the state a level starts in, reach    *)
(* collects, frame by frame, every position a frame of updateGame can move *)
(* the panda to under some set of held movement keys; a position in the    *)
(* end zone is not moved on from, since the frame that reaches it ends the *)
(* level.  frontier holds the positions found by the last step.            *)
(***************************************************************************)
DirectionKeys == {"arrowup", "arrowdown", "arrowleft", "arrowright"}
HeldSets == {ks \in SUBSET DirectionKeys : Cardinality(ks) <= MaxHeld}

levelStart(level) == initializeLevel([InitialState EXCEPT !.level = level], level)

InitReach ==
  /\ \E level \in 1 .. Len(MAZE_LAYOUTS) : gameState = levelStart(level)
  /\ frames = 0 /\ script = << >>
  /\ reach = {gameState.panda} /\ frontier = {gameState.panda}

ExploreFrames == 6

oneFrame(from) ==
  {movePanda([gameState EXCEPT !.panda = p, !.keysPressed = ks]) :
     p \in {q \in from : ~reachedEnd(q)}, ks \in HeldSets}

RECURSIVE someFrames(_, _, _)
someFrames(seen, from, n) ==
  IF n = 0 \/ from = {} THEN [seen |-> seen, from |-> from]
  ELSE LET found == oneFrame(from) \ seen
       IN someFrames(seen \cup found, found, n - 1)

Explore ==
  /\ frontier # {}
  /\ LET r == someFrames(reach, frontier, ExploreFrames)
     IN reach' = r.seen /\ frontier' = r.from
  /\ UNCHANGED <<gameState, frames, script>>

SpecReach == InitReach /\ [][Explore]_vars


(***************************************************************************)
(* updateGame on its own.  The frame is applied to playing states drawn    *)
(* from small sets: a level's walls, the panda at the start or one frame   *)
(* short of the end zone, a health value, a set of held keys, and a short  *)
(* list of items lying on the panda.                                       *)
(***************************************************************************)
BeforeExit == [x |-> Px(757), y |-> Px(514) + 18]
TickHealths == {10, 15, 20, 100}

itemAt(type, index, palette, pos) ==
  [id |-> <<type, index>>, type |-> type, emoji |-> palette[index + 1].emoji,
   position |-> pos, points |-> palette[index + 1].points]

TickFoods(pos) ==
  LET good == itemAt("good", 0, GOOD_FOODS, pos)
      bad == itemAt("bad", 0, BAD_FOODS, pos)
      bad2 == itemAt("bad", 1, BAD_FOODS, pos)
  IN {<< >>, <<good>>, <<bad>>, <<good, bad>>, <<bad, good>>, <<bad, bad2>>}

goodCount(foods) == Len(SelectSeq(foods, LAMBDA food : food.type = "good"))

InitTick ==
  /\ \E level \in 1 .. Len(MAZE_LAYOUTS), h \in TickHealths, ks \in HeldSets,
        missing \in {0, 1} :
       \E pos \in {levelStart(level).panda, BeforeExit} :
         \E foods \in TickFoods(pos) :
           gameState = [levelStart(level) EXCEPT !.panda = pos,
                                                 !.health = h,
                                                 !.keysPressed = ks,
                                                 !.foods = foods,
                                                 !.totalGoodFood = goodCount(foods) + missing]
  /\ frames = 0 /\ script = << >>
  /\ reach = {} /\ frontier = {}

SpecTick == InitTick /\ [][Tick]_vars

(***************************************************************************)
(* The end of a level.  nextLevel, the buttons of the end screens and the  *)
(* free play that follows are applied to levelComplete states drawn for    *)
(* each level: the panda in the end zone, every good item collected, the   *)
(* bad items left, a score and a health, and possibly a key still held.    *)
(***************************************************************************)
InExit == [x |-> Px(761), y |-> Px(514) + 18]
LevelEndHealths == {15, 85}
LevelEndScores == {51}

levelEnd(level, health, score, ks) ==
  LET s == levelStart(level)
  IN [s EXCEPT !.panda = InExit,
               !.foods = SelectSeq(s.foods, LAMBDA food : food.type = "bad"),
               !.goodFoodCollected = s.totalGoodFood,
               !.hasReachedEnd = TRUE,
               !.gameStatus = "levelComplete",
               !.health = health,
               !.score = score,
               !.keysPressed = ks]

InitLevelEnd ==
  /\ \E level \in 1 .. Len(MAZE_LAYOUTS), h \in LevelEndHealths,
        sc \in LevelEndScores, ks \in {{}, {"arrowright"}} :
       gameState = levelEnd(level, h, sc, ks)
  /\ frames = 0 /\ script = << >>
  /\ reach = {} /\ frontier = {}

NextLevelEnd ==
  \/ Tick
  \/ \E k \in KeyNames : KeyDown(k)
  \/ \E k \in KeyNames : KeyUp(k)
  \/ StartGame \/ RestartGame \/ NextLevel \/ MainMenu

SpecLevelEnd == InitLevelEnd /\ [][NextLevelEnd]_vars

(***************************************************************************)
(* The edge of the arena.  Every border cell of the three grids is a wall  *)
(* but the exit cell 'E' on the right, so the only bound the panda's box   *)
(* can come to without standing in a wall is x = GAME_WIDTH - PANDA_SIZE,  *)
(* from inside the exit cell.  Besides the runs of Spec, the game is run   *)
(* from playing states with the panda in the middle of the exit cell, less *)
(* than one step from that bound.                                          *)
(***************************************************************************)
EdgeXs == {Px(768), Px(769)}

atEdge(level, x, ks) ==
  LET s == levelStart(level)
      m == generateMaze(level)
      cellHeight == Px(GAME_HEIGHT) \div Len(MAZE_LAYOUTS[level].layout)
  IN [s EXCEPT !.panda = [x |-> x,
                          y |-> m.endPos.y + cellHeight \div 2 - Px(PANDA_SIZE) \div 2],
               !.keysPressed = ks]

InitEdge ==
  /\ \/ gameState = InitialState
     \/ \E level \in 1 .. Len(MAZE_LAYOUTS), x \in EdgeXs, ks \in HeldSets :
          gameState = atEdge(level, x, ks)
  /\ frames = 0 /\ script = << >>
  /\ reach = {} /\ frontier = {}

SpecEdge == InitEdge /\ [][Next]_vars

(***************************************************************************)
(* The claims.                                                             *)
(***************************************************************************)
itemIds(foods) == {foods[i].id : i \in 1 .. Len(foods)}

\* The items of `before` that are gone from `after`, in array order.
removedItems(before, after) ==
  SelectSeq(before, LAMBDA food : food.id \notin itemIds(after))

RECURSIVE healthAfter(_, _, _)
healthAfter(h, items, i) ==
  IF i > Len(items) THEN h
  ELSE healthAfter(IF items[i].type = "good"
                   THEN (IF h + 5 > 100 THEN 100 ELSE h + 5)
                   ELSE (IF h - 15 < 0 THEN 0 ELSE h - 15),
                   items, i + 1)

RECURSIVE pointsOf(_, _)
pointsOf(items, i) ==
  IF i > Len(items) THEN 0 ELSE items[i].points + pointsOf(items, i + 1)

\* The ids of the items whose 25x25 box overlaps the 30x30 box at pos.
touching(pos, foods) ==
  {foods[i].id : i \in {j \in 1 .. Len(foods) :
      /\ pos.x < foods[j].position.x + Px(25)
      /\ pos.x + Px(30) > foods[j].position.x
      /\ pos.y < foods[j].position.y + Px(25)
      /\ pos.y + Px(30) > foods[j].position.y}}

\* The designated cells of a level that are open ('.', 'S' or 'E') and inside
\* the grid, as the ids generation gives their items.
openCell(level, pos) ==
  LET layout == MAZE_LAYOUTS[level].layout
  IN /\ pos.row \in 0 .. Len(layout) - 1
     /\ pos.col \in 0 .. Len(layout[pos.row + 1]) - 1
     /\ layout[pos.row + 1][pos.col + 1] \in {".", "S", "E"}

expectedIds(level) ==
  LET m == MAZE_LAYOUTS[level]
  IN {<<"good", i - 1>> : i \in {j \in 1 .. Len(m.goodFoodPositions) :
                                   openCell(level, m.goodFoodPositions[j])}}
     \cup
     {<<"bad", i - 1>> : i \in {j \in 1 .. Len(m.badFoodPositions) :
                                  openCell(level, m.badFoodPositions[j])}}

levelStarts == gameState'.gameStatus = "playing" /\ (StartGame \/ RestartGame \/ NextLevel)

\* C1: while the status is playing, the panda's 30x30 box overlaps no wall
\* rectangle, a wall rectangle being its stored position, width and height.
C1_NoWallOverlap ==
  gameState.gameStatus = "playing" =>
    \A wall \in gameState.walls :
      ~ /\ gameState.panda.x < wall.position.x + wall.width
        /\ gameState.panda.x + Px(PANDA_SIZE) > wall.position.x
        /\ gameState.panda.y < wall.position.y + wall.height
        /\ gameState.panda.y + Px(PANDA_SIZE) > wall.position.y

canCollect(food) ==
  \E p \in reach : checkCollision(p, food.position, Px(PANDA_SIZE), Px(FOOD_SIZE))

\* C2: every level can be completed from its start: once every position the
\* panda can get to in the level is known, each good item placed in the level
\* is touched by one of them and one of them lies in the end zone (x >= 760).
C2_LevelSolvable ==
  frontier = {} =>
    /\ \A i \in 1 .. Len(gameState.foods) :
         gameState.foods[i].type = "good" => canCollect(gameState.foods[i])
    /\ \E p \in reach : p.x >= Px(760)

\* C3: a frame in status playing that leaves the panda at x >= 760 with health
\* above 0 ends in gameOver when fewer good items than totalGoodFood are
\* collected, and in levelComplete when all of them are.
C3_EndZoneOutcome ==
  [][ ( /\ gameState.gameStatus = "playing"
        /\ Tick
        /\ gameState'.panda.x >= Px(GAME_WIDTH - PANDA_SIZE - 10)
        /\ gameState'.health > 0 )
      => /\ gameState'.goodFoodCollected < gameState.totalGoodFood
              => gameState'.gameStatus = "gameOver"
         /\ gameState'.goodFoodCollected = gameState.totalGoodFood
              => gameState'.gameStatus = "levelComplete" ]_vars

C3_Witness ==
  /\ gameState.gameStatus = "gameOver"
  /\ gameState.panda.x >= Px(760)
  /\ gameState.health > 0
  /\ gameState.goodFoodCollected < gameState.totalGoodFood

\* C4: a frame in status playing that ends with health 0 ends in gameOver,
\* wherever the panda is and whatever it has collected.
C4_NoHealthGameOver ==
  [][ ( /\ gameState.gameStatus = "playing"
        /\ Tick
        /\ gameState'.health = 0 )
      => gameState'.gameStatus = "gameOver" ]_vars

C4_Witness ==
  /\ frames > 0
  /\ gameState.health = 0
  /\ gameState.gameStatus = "gameOver"
  /\ gameState.panda.x >= Px(760)
  /\ gameState.goodFoodCollected = gameState.totalGoodFood

\* C5: health stays in 0..100; a frame sets it to the result of applying, for
\* each item it removes in turn, min(100, h + 5) for a good one and
\* max(0, h - 15) for a bad one; start and restart set it to 100; nothing else
\* changes it.
C5_Health ==
  /\ gameState.health \in 0 .. 100
  /\ [][ /\ gameState'.health \in 0 .. 100
         /\ \/ gameState'.health =
                 healthAfter(gameState.health,
                             removedItems(gameState.foods, gameState'.foods), 1)
            \/ ~Tick
         /\ (StartGame \/ RestartGame) => gameState'.health = 100
         /\ \/ gameState'.health = gameState.health
            \/ Tick \/ StartGame \/ RestartGame ]_vars

C5_Witness ==
  /\ gameState.gameStatus = "playing"
  /\ gameState.health = 90
  /\ gameState.goodFoodCollected > 0

\* C6: in every status, a key-up event for key k leaves k (lower-cased) out of
\* the held set.
C6_KeyUpRemovesKey ==
  \A k \in KeyNames :
    toLowerCase(k) \notin handleKeyUpWrapper(gameState, k).keysPressed

\* C7: when a level starts, there is exactly one item for each designated
\* cell that is '.', 'S' or 'E', lying inside that cell, and none for the
\* other designated cells; totalGoodFood is the number of good items placed,
\* and stays so while the level is played.
C7_FoodPlacement ==
  [][ /\ levelStarts =>
           LET s == gameState'
               m == MAZE_LAYOUTS[s.level]
           IN /\ itemIds(s.foods) = expectedIds(s.level)
              /\ Len(s.foods) = Cardinality(expectedIds(s.level))
              /\ \A i \in 1 .. Len(s.foods) :
                   LET food == s.foods[i]
                       cell == IF food.type = "good"
                               THEN m.goodFoodPositions[food.id[2] + 1]
                               ELSE m.badFoodPositions[food.id[2] + 1]
                   IN /\ food.id[1] = food.type
                      /\ food.position.x > cell.col * Px(40)
                      /\ food.position.x + Px(FOOD_SIZE) < (cell.col + 1) * Px(40)
                      /\ 11 * food.position.y > cell.row * Px(600)
                      /\ 11 * (food.position.y + Px(FOOD_SIZE)) < (cell.row + 1) * Px(600)
      /\ gameState'.gameStatus = "playing" =>
           gameState'.totalGoodFood =
             Cardinality({id \in expectedIds(gameState'.level) : id[1] = "good"}) ]_vars

C7_Witness ==
  /\ gameState.gameStatus = "playing"
  /\ frames = 0
  /\ itemIds(gameState.foods) = expectedIds(gameState.level)
  /\ gameState.totalGoodFood < Len(MAZE_LAYOUTS[gameState.level].goodFoodPositions)

\* C8: within a level no item is added; a frame in status playing removes
\* exactly the items that overlap the panda's new position and adds their
\* points, health effects and good-item count once; no other step touches the
\* items.
C8_ItemsEatenOnce ==
  [][ \/ levelStarts
      \/ /\ itemIds(gameState'.foods) \subseteq itemIds(gameState.foods)
         /\ Len(gameState'.foods) = Cardinality(itemIds(gameState'.foods))
         /\ \/ LET removed == removedItems(gameState.foods, gameState'.foods)
               IN /\ itemIds(removed) = touching(gameState'.panda, gameState.foods)
                  /\ gameState'.score = gameState.score + pointsOf(removed, 1)
                  /\ gameState'.health = healthAfter(gameState.health, removed, 1)
                  /\ gameState'.goodFoodCollected =
                       gameState.goodFoodCollected
                       + Len(SelectSeq(removed, LAMBDA food : food.type = "good"))
            \/ ~(gameState.gameStatus = "playing" /\ Tick)
         /\ gameState'.foods = gameState.foods \/ Tick ]_vars

C8_Witness ==
  /\ gameState.gameStatus = "playing"
  /\ Len(gameState.foods) < Cardinality(expectedIds(gameState.level))
  /\ gameState.score # 0

\* C9: while the status is not playing a frame changes nothing, and neither a
\* frame nor a key event makes the status playing: only startGame,
\* restartGame and nextLevel do.
C9_IdleOutsidePlaying ==
  /\ [](gameState.gameStatus # "playing" =>
          /\ updateGame(gameState) = gameState
          /\ \A k \in KeyNames :
               /\ handleKeyDownWrapper(gameState, k).gameStatus # "playing"
               /\ handleKeyUpWrapper(gameState, k).gameStatus # "playing")
  /\ [][ (gameState.gameStatus # "playing" /\ gameState'.gameStatus = "playing")
         => (StartGame \/ RestartGame \/ NextLevel) ]_vars

C9_Witness ==
  /\ gameState.gameStatus = "gameOver"
  /\ gameState.keysPressed # {}

listedChange ==
  \/ /\ gameState.gameStatus = "playing"
     /\ gameState'.gameStatus \in {"gameOver", "levelComplete"}
     /\ Tick
  \/ /\ gameState'.gameStatus = "playing"
     /\ StartGame \/ RestartGame
  \/ /\ gameState.gameStatus = "levelComplete"
     /\ gameState'.gameStatus = "playing"
     /\ NextLevel
     /\ gameState.level < Len(MAZE_LAYOUTS)
  \/ /\ gameState.gameStatus = "levelComplete"
     /\ gameState'.gameStatus = "gameWon"
     /\ NextLevel
     /\ gameState.level >= Len(MAZE_LAYOUTS)

\* C10 as claimed: the status starts as menu and changes only by a frame
\* (playing to gameOver or levelComplete), by start or restart (to playing),
\* or by next-level (levelComplete to playing, or to gameWon past the last
\* level).
C10_OnlyListedChanges ==
  /\ gameState.gameStatus = "menu"
  /\ [][ gameState'.gameStatus # gameState.gameStatus => listedChange ]_vars

\* C10 as amended: the changes above, and the Main Menu button taking
\* gameOver or gameWon to menu.
C10_ListedChangesAndMainMenu ==
  /\ gameState.gameStatus = "menu"
  /\ [][ gameState'.gameStatus # gameState.gameStatus =>
           \/ listedChange
           \/ /\ gameState.gameStatus \in {"gameOver", "gameWon"}
              /\ gameState'.gameStatus = "menu"
              /\ MainMenu ]_vars

C10_Witness ==
  /\ gameState.gameStatus = "menu"
  /\ gameState.walls # {}
\* The state a first start from the initial menu state gives.
firstStart == startGame(InitialState)

\* s and t agree on everything a session consists of but the held keys.
sameSession(s, t) ==
  /\ s.score = t.score /\ s.health = t.health /\ s.level = t.level
  /\ s.gameStatus = t.gameStatus
  /\ s.goodFoodCollected = t.goodFoodCollected
  /\ s.totalGoodFood = t.totalGoodFood
  /\ s.walls = t.walls /\ s.foods = t.foods /\ s.panda = t.panda

\* The first start gives level 1 complete: its walls, every item of its
\* designated open cells, and its start position.
firstStartIsLevel1 ==
  /\ firstStart.score = 0 /\ firstStart.health = 100 /\ firstStart.level = 1
  /\ firstStart.gameStatus = "playing" /\ firstStart.goodFoodCollected = 0
  /\ firstStart.walls = generateMaze(1).walls
  /\ firstStart.foods = generateMaze(1).foods
  /\ itemIds(firstStart.foods) = expectedIds(1)
  /\ firstStart.panda = generateMaze(1).startPos

\* C11: startGame and restartGame, applied to any reachable state in any
\* status, give the session a first start from the initial menu state gives:
\* score 0, health 100, level 1, status playing, goodFoodCollected 0, and the
\* walls, the complete item list and the start position of level 1.
C11_StartIsFresh ==
  /\ firstStartIsLevel1
  /\ sameSession(startGame(gameState), firstStart)
  /\ sameSession(restartGame(gameState), firstStart)

C11_Witness ==
  /\ gameState.gameStatus = "gameOver"
  /\ gameState.score # 0 /\ gameState.health # 100
  /\ Len(gameState.foods) < Len(firstStart.foods)
  /\ gameState.panda # firstStart.panda
  /\ restartGame(gameState).score = 0
\* C12: the next-level action taken in status levelComplete at a level L below
\* the last sets the level to L + 1, installs the walls, the items and the
\* start position of level L + 1, sets goodFoodCollected to 0 and the status
\* to playing, and leaves score and health as they were.
C12_NextLevelAdvances ==
  [][ ( /\ NextLevel
        /\ gameState.gameStatus = "levelComplete"
        /\ gameState.level < Len(MAZE_LAYOUTS) )
      => LET L == gameState.level
             m == generateMaze(L + 1)
         IN /\ gameState'.level = L + 1
            /\ gameState'.walls = m.walls
            /\ gameState'.foods = m.foods
            /\ itemIds(gameState'.foods) = expectedIds(L + 1)
            /\ gameState'.panda = m.startPos
            /\ gameState'.goodFoodCollected = 0
            /\ gameState'.gameStatus = "playing"
            /\ gameState'.score = gameState.score
            /\ gameState'.health = gameState.health ]_vars

C12_Witness ==
  /\ gameState.gameStatus = "playing"
  /\ gameState.level = 3
  /\ frames = 0
  /\ gameState.panda = generateMaze(3).startPos
  /\ gameState.score # 0 /\ gameState.health = 85
  /\ gameState.goodFoodCollected = 0
\* C13: the next-level action taken in status levelComplete at the last level
\* sets the status to gameWon and changes nothing else: level, walls, items,
\* panda, score and health stay, and no level is generated.
C13_LastLevelWins ==
  [][ ( /\ NextLevel
        /\ gameState.gameStatus = "levelComplete"
        /\ gameState.level = Len(MAZE_LAYOUTS) )
      => /\ gameState'.gameStatus = "gameWon"
         /\ gameState'.level = gameState.level
         /\ gameState'.walls = gameState.walls
         /\ gameState'.foods = gameState.foods
         /\ gameState'.panda = gameState.panda
         /\ gameState'.score = gameState.score
         /\ gameState'.health = gameState.health
         /\ gameState' = [gameState EXCEPT !.gameStatus = "gameWon"] ]_vars

C13_Witness ==
  /\ gameState.gameStatus = "gameWon"
  /\ gameState.level = 3
  /\ gameState.panda = InExit
  /\ gameState.score # 0 /\ gameState.health # 100
\* C14: the level is always in 1..3; a step other than start or restart never
\* lowers it: a frame, a key event and the Main Menu button leave it as it
\* is, and next-level raises it by at most 1.
C14_LevelMonotone ==
  /\ [](gameState.level \in 1 .. 3 /\ Len(MAZE_LAYOUTS) = 3)
  /\ [][ /\ gameState'.level \in 1 .. Len(MAZE_LAYOUTS)
         /\ gameState'.level >= gameState.level \/ StartGame \/ RestartGame
         /\ gameState'.level = gameState.level
              \/ NextLevel \/ StartGame \/ RestartGame
         /\ NextLevel => gameState'.level \in {gameState.level, gameState.level + 1} ]_vars

C14_Witness ==
  /\ gameState.level = 3
  /\ gameState.gameStatus = "playing"
  /\ frames > 0
  /\ gameState.keysPressed # {}
\* C15: a frame in status playing with no key held and no item overlapping
\* the panda leaves position, score, health, goodFoodCollected, the items and
\* the status as they were.
C15_IdleFrame ==
  [][ ( /\ gameState.gameStatus = "playing"
        /\ gameState.keysPressed = {}
        /\ touching(gameState.panda, gameState.foods) = {}
        /\ Tick )
      => /\ gameState'.panda = gameState.panda
         /\ gameState'.score = gameState.score
         /\ gameState'.health = gameState.health
         /\ gameState'.goodFoodCollected = gameState.goodFoodCollected
         /\ gameState'.foods = gameState.foods
         /\ gameState'.gameStatus = "playing" ]_vars

C15_Witness ==
  /\ gameState.gameStatus = "playing"
  /\ gameState.keysPressed = {}
  /\ frames = MaxFrames
  /\ gameState.panda # generateMaze(gameState.level).startPos
\* The entries the held set may have, and the two spellings of each letter key.
heldNames == {"arrowup", "arrowdown", "arrowleft", "arrowright", "w", "a", "s", "d"}
letterKeys == {<<"w", "W">>, <<"a", "A">>, <<"s", "S">>, <<"d", "D">>}
otherKeys == {"x", "q", "1", " "}

\* C16: the held set holds only lower-cased movement keys; a key-down of a
\* key that is no movement key leaves the state as it is; the upper-case and
\* the lower-case form of W, A, S and D add the same entry and remove the same
\* entry.
C16_HeldKeysNormalised ==
  /\ gameState.keysPressed \subseteq heldNames
  /\ \A k \in otherKeys :
       /\ handleKeyDown(gameState, k) = gameState
       /\ handleKeyDownWrapper(gameState, k) = gameState
  /\ \A k \in MovementKeys :
       handleKeyDown(gameState, k).keysPressed \subseteq heldNames
  /\ \A pair \in letterKeys :
       /\ handleKeyDown(gameState, pair[1]) = handleKeyDown(gameState, pair[2])
       /\ handleKeyDown(gameState, pair[1]).keysPressed
            = gameState.keysPressed \cup {pair[1]}
       /\ handleKeyUp(gameState, pair[1]) = handleKeyUp(gameState, pair[2])
       /\ handleKeyUp(gameState, pair[1]).keysPressed
            = gameState.keysPressed \ {pair[1]}
       /\ handleKeyUp(handleKeyDown(gameState, pair[2]), pair[1]).keysPressed
            = gameState.keysPressed \ {pair[1]}

C16_Witness ==
  /\ gameState.gameStatus = "playing"
  /\ gameState.keysPressed = {"d", "arrowup"}
  /\ frames > 0
\* The wall test the frame applies to a candidate position: the panda's box
\* against the square of side wall.width at the wall's position.
blocked(walls, x, y) ==
  \E wall \in walls :
    /\ x < wall.position.x + wall.width /\ x + Px(30) > wall.position.x
    /\ y < wall.position.y + wall.width /\ y + Px(30) > wall.position.y

\* The step a held set asks for on each axis, when it holds one vertical and
\* one horizontal direction: -1 up or left, 1 down or right, 0 otherwise.
askedY(keys) ==
  LET up == "arrowup" \in keys \/ "w" \in keys
      down == "arrowdown" \in keys \/ "s" \in keys
  IN IF up /\ ~down THEN 0 - 1 ELSE IF down /\ ~up THEN 1 ELSE 0
askedX(keys) ==
  LET left == "arrowleft" \in keys \/ "a" \in keys
      right == "arrowright" \in keys \/ "d" \in keys
  IN IF left /\ ~right THEN 0 - 1 ELSE IF right /\ ~left THEN 1 ELSE 0

clampTo(v, hi) == IF v < 0 THEN 0 ELSE IF v > hi THEN hi ELSE v

\* C17: in a frame with one vertical and one horizontal direction held, the
\* vertical candidate is taken unless it overlaps a wall, and the horizontal
\* candidate, tested at the y the vertical step left, is taken unless it
\* overlaps a wall: a rejection on one axis does not stop the other, so the
\* panda slides along the wall.
C17_AxesResolvedApart ==
  [][ LET keys == gameState.keysPressed
          p == gameState.panda
          yCand == clampTo(p.y + askedY(keys) * Px(4), Px(570))
          yAfter == IF blocked(gameState.walls, p.x, yCand) THEN p.y ELSE yCand
          xCand == clampTo(p.x + askedX(keys) * Px(4), Px(770))
          xAfter == IF blocked(gameState.walls, xCand, yAfter) THEN p.x ELSE xCand
      IN \/ ~ ( /\ gameState.gameStatus = "playing"
                /\ askedY(keys) # 0 /\ askedX(keys) # 0 )
         \/ gameState'.keysPressed # keys    \* a key event, not a frame
         \/ (frames' = frames /\ script' = script)    \* no frame was taken
         \/ gameState'.panda = [x |-> xAfter, y |-> yAfter]
         \/ ~Tick ]_vars

\* The panda has slid: two frames from the start of level 1 with up and left
\* held, the first moved it on both axes, the second only up, the wall on
\* the left rejecting the step from x = 41; the next frame slides again.
C17_Witness ==
  /\ gameState.gameStatus = "playing" /\ gameState.level = 1
  /\ frames = 2
  /\ gameState.keysPressed = {"arrowup", "arrowleft"}
  /\ gameState.panda.x = generateMaze(1).startPos.x - Px(4)
  /\ gameState.panda.y = generateMaze(1).startPos.y - Px(8)
  /\ blocked(gameState.walls, gameState.panda.x - Px(4), gameState.panda.y - Px(4))
  /\ ~blocked(gameState.walls, gameState.panda.x, gameState.panda.y - Px(4))
\* C18: in status playing the panda is inside the arena, 0 <= x <= 770 and
\* 0 <= y <= 570; a frame whose step on an axis would leave the arena moves
\* the panda to the bound on that axis, unless a wall stands there.
C18_InsideArena ==
  /\ [](gameState.gameStatus = "playing" =>
          /\ gameState.panda.x >= 0 /\ gameState.panda.x <= Px(770)
          /\ gameState.panda.y >= 0 /\ gameState.panda.y <= Px(570))
  /\ [][ LET keys == gameState.keysPressed
             p == gameState.panda
             rawY == p.y + askedY(keys) * Px(4)
             rawX == p.x + askedX(keys) * Px(4)
             yCand == clampTo(rawY, Px(570))
             yAfter == IF blocked(gameState.walls, p.x, yCand) THEN p.y ELSE yCand
             xCand == clampTo(rawX, Px(770))
         IN \/ gameState.gameStatus # "playing"
            \/ gameState'.keysPressed # keys    \* a key event, not a frame
            \/ /\ gameState'.panda.x \in 0 .. Px(770)
               /\ gameState'.panda.y \in 0 .. Px(570)
               /\ (rawY # yCand /\ ~blocked(gameState.walls, p.x, yCand))
                    => gameState'.panda.y = yCand
               /\ (rawX # xCand /\ ~blocked(gameState.walls, xCand, yAfter))
                    => gameState'.panda.x = xCand
            \/ ~Tick ]_vars

\* The panda stands at the right bound after a frame.
C18_Witness ==
  /\ gameState.panda.x = Px(GAME_WIDTH - PANDA_SIZE)
  /\ frames = 1
  /\ "arrowright" \in gameState.keysPressed
\* The position the four direction checks give, in the frame's order (up,
\* down, left, right), all read from the one held set keys.
stepped(walls, p, keys) ==
  LET up == "arrowup" \in keys \/ "w" \in keys
      down == "arrowdown" \in keys \/ "s" \in keys
      left == "arrowleft" \in keys \/ "a" \in keys
      right == "arrowright" \in keys \/ "d" \in keys
      y1 == IF up /\ ~blocked(walls, p.x, clampTo(p.y - Px(4), Px(570)))
            THEN clampTo(p.y - Px(4), Px(570)) ELSE p.y
      y2 == IF down /\ ~blocked(walls, p.x, clampTo(y1 + Px(4), Px(570)))
            THEN clampTo(y1 + Px(4), Px(570)) ELSE y1
      x3 == IF left /\ ~blocked(walls, clampTo(p.x - Px(4), Px(770)), y2)
            THEN clampTo(p.x - Px(4), Px(770)) ELSE p.x
      x4 == IF right /\ ~blocked(walls, clampTo(x3 + Px(4), Px(770)), y2)
            THEN clampTo(x3 + Px(4), Px(770)) ELSE x3
  IN [x |-> x4, y |-> y2]

isKeyEvent == \E k \in KeyNames : KeyDown(k) \/ KeyUp(k)

\* C19: key events and frames taken in any order during play do not lose
\* each other's updates: a step that changes the held set is a key event
\* and changes nothing else, so a frame leaves the held set as it is and a
\* key event leaves position, score, health and items as the frame left
\* them; and a frame moves the panda by the four direction checks read from
\* the held set as the latest key event left it.
C19_NoLostUpdates ==
  [][ /\ \/ gameState'.keysPressed = gameState.keysPressed
         \/ /\ [gameState' EXCEPT !.keysPressed = gameState.keysPressed] = gameState
            /\ isKeyEvent
      /\ \/ gameState.gameStatus # "playing"
         \/ gameState'.keysPressed # gameState.keysPressed
         \/ (frames' = frames /\ script' = script)    \* no frame was taken
         \/ gameState'.panda =
              stepped(gameState.walls, gameState.panda, gameState.keysPressed)
         \/ ~Tick ]_vars

\* Two frames from the start of level 1 with the held set changed in
\* between: one step right, one step down, the down key held.
C19_Witness ==
  /\ gameState.gameStatus = "playing" /\ gameState.level = 1
  /\ frames = 2
  /\ gameState.keysPressed = {"arrowdown"}
  /\ gameState.panda.x = generateMaze(1).startPos.x + Px(4)
  /\ gameState.panda.y = generateMaze(1).startPos.y + Px(4)
\* The number of good items in an item list.
goodLeft(foods) ==
  Cardinality({i \in 1 .. Len(foods) : foods[i].type = "good"})

\* C20: once a level has been initialized, goodFoodCollected plus the number
\* of good items still active is totalGoodFood, so goodFoodCollected is in
\* 0..totalGoodFood; and a frame that ends with the panda in the end zone
\* (x >= 760) does not leave the status at playing.
C20_CollectedPlusLeft ==
  /\ [](gameState.walls # {} =>
          /\ gameState.goodFoodCollected + goodLeft(gameState.foods)
               = gameState.totalGoodFood
          /\ gameState.goodFoodCollected >= 0
          /\ gameState.goodFoodCollected <= gameState.totalGoodFood
          /\ gameState.gameStatus = "playing" => gameState.panda.x < Px(760))
  /\ [][ \/ gameState'.panda.x < Px(760)
         \/ gameState'.gameStatus # "playing"
         \/ ~Tick ]_vars

C20_Witness ==
  /\ gameState.gameStatus = "gameOver"
  /\ gameState.panda.x >= Px(760)
  /\ gameState.goodFoodCollected > 0
  /\ goodLeft(gameState.foods) > 0
  /\ gameState.goodFoodCollected + goodLeft(gameState.foods) = gameState.totalGoodFood
\* C21: the score is the sum of the points, with their signs, of the items
\* picked up since the last start or restart: start and restart set it to 0,
\* next-level keeps it, a frame that removes items adds exactly the sum of
\* their points, with no bound above or below, and no other step changes it;
\* so on the first level it is the sum of the points of the level's items
\* that are gone.
C21_ScoreIsSum ==
  /\ []((gameState.level = 1 /\ gameState.walls # {}) =>
          gameState.score
            = pointsOf(removedItems(firstStart.foods, gameState.foods), 1))
  /\ [][ /\ (StartGame \/ RestartGame) => gameState'.score = 0
         /\ NextLevel => gameState'.score = gameState.score
         /\ \/ StartGame \/ RestartGame \/ NextLevel
            \/ gameState'.score
                 = gameState.score
                   + pointsOf(removedItems(gameState.foods, gameState'.foods), 1)
         /\ \/ gameState'.score = gameState.score
            \/ StartGame \/ RestartGame
            \/ /\ Len(removedItems(gameState.foods, gameState'.foods)) >= 1
               /\ Tick ]_vars

\* The score is below 0: two good items and two bad ones picked up.
C21_Witness ==
  /\ gameState.score < 0
  /\ gameState.score = pointsOf(removedItems(firstStart.foods, gameState.foods), 1)
  /\ Len(removedItems(firstStart.foods, gameState.foods)) = 4
====
